---- MODULE Spec2Model ----
(***************************************************************************)
(* A model of leviton_circadian_ramp (src/main.py): the scheduler loop     *)
(* cmd_service, the override and run-state documents, the SIGUSR1 wake     *)
(* signal, the override commands (skip / reschedule / clear) and the       *)
(* brightness ramp run_ramp.                                               *)
(*                                                                         *)
(* Time is discrete.  A calendar date is a day number and a local time of  *)
(* day is a tick in 0..TicksPerDay-1.  Statements of the loop and of the   *)
(* commands take no time; the clock advances only while the service is     *)
(* blocked (in Event.wait or inside the ramp) or is not running.           *)
(***************************************************************************)
EXTENDS Integers, Sequences, FiniteSets, TLC

\* ------------------------------------------------------------------------
\* Bounds of the model
\* ------------------------------------------------------------------------
MaxDay == 1
TicksPerDay == 3
MaxCmds == 1
RampTicks == 1
CooldownTicks == 1
MaxSwitches == 2
\* the last 'today' parse_date_arg is called on
MaxToday == 13
\* the longest ramp calculate_brightness_times is called on, in minutes
MaxMinutes == 60
\* bits of the significand of a float
Precision == 14
\* the last date and the most entries of a mapping cleanup_overrides is called on
MaxKeyDay == 13
MaxEntries == 2
\* ticks of time.time() over the duration of a ramp
TicksPerRamp == 400
\* the most ticks the commands of one brightness level take
MaxLatency == 1

\* ------------------------------------------------------------------------
\* Program constants
\* ------------------------------------------------------------------------
\* DEFAULT_RAMP_TIME ("07:20"), as a tick of the day
DEFAULT_RAMP_TIME == 1
\* calculate_brightness_times: min_brightness, max_brightness
min_brightness == 1
max_brightness == 100

Dates == 0..MaxDay
Times == 0..(TicksPerDay - 1)
\* the times the reschedule command is given: one before and one after the default
ReschedTimes == {0, TicksPerDay - 1}
NoDate == -1
NoTime == -1

\* ------------------------------------------------------------------------
\* JSON documents and the values json.loads returns for them
\* ------------------------------------------------------------------------
\* An entry of the override document.  A reschedule entry without a "time"
\* key is Reschedule(NoTime).
SkipEntry == [action |-> "skip", time |-> NoTime]
Reschedule(t) == [action |-> "reschedule", time |-> t]
GoodEntries == {SkipEntry} \cup {Reschedule(t) : t \in ReschedTimes}
BadEntries == {Reschedule(NoTime)}
\* the {} that overrides.get(today_str, {}) falls back to
NoEntry == [action |-> "none", time |-> NoTime]

\* A Python dict keyed by date is a function on a subset of Dates.
EmptyDict == <<>>

\* A file: absent, not parseable ("invalid": this includes the zero-length
\* and the partly written file), parseable but not a JSON object
\* ("nonobject"), or a JSON object.
AbsentFile == [kind |-> "absent", data |-> EmptyDict]
InvalidFile == [kind |-> "invalid", data |-> EmptyDict]
NonObjectFile == [kind |-> "nonobject", data |-> EmptyDict]
ObjectFile(d) == [kind |-> "object", data |-> d]

\* A loaded Python value: a dict, or something that is not a dict.
PyDict(d) == [type |-> "dict", items |-> d]
PyList == [type |-> "list", items |-> EmptyDict]

load_overrides(file) ==
    CASE file.kind \in {"absent", "invalid"} -> PyDict(EmptyDict)
      [] file.kind = "nonobject" -> PyList
      [] OTHER -> PyDict(file.data)

\* the content of the file once write_text has finished
save_overrides(value) == ObjectFile(value.items)

\* dict.get(key, {}) on a dict of entries
Get(d, key) == IF key \in DOMAIN d THEN d[key] ELSE NoEntry

\* A date is a day number: day 0 is Monday 2026-12-28, so that the first days
\* run over the end of a month and of a year.  The calendar date of a day:
DateOf(n) ==
    IF n <= 3 THEN [year |-> 2026, month |-> 12, day |-> 28 + n]
    ELSE [year |-> 2027, month |-> 1, day |-> n - 3]

\* the characters of a string are code points: "-" is 45, "0".."9" are 48..57
Digit(n) == 48 + n
\* date.isoformat(): YYYY-MM-DD
isoformat(date) ==
    <<Digit(date.year \div 1000), Digit((date.year \div 100) % 10),
      Digit((date.year \div 10) % 10), Digit(date.year % 10), 45,
      Digit(date.month \div 10), Digit(date.month % 10), 45,
      Digit(date.day \div 10), Digit(date.day % 10)>>

\* a >= b on strings: the comparison of the first code points that differ
RECURSIVE StrGE(_, _)
StrGE(a, b) ==
    IF b = <<>> THEN TRUE
    ELSE IF a = <<>> THEN FALSE
    ELSE IF Head(a) # Head(b) THEN Head(a) > Head(b)
    ELSE StrGE(Tail(a), Tail(b))

\* a cleanup_overrides that drops the entry of today as well
cleanup_overrides_strict(value, today) ==
    PyDict([date \in {k \in DOMAIN value.items : k # today /\
                        StrGE(isoformat(DateOf(k)), isoformat(DateOf(today)))}
            |-> value.items[date]])

\* cleanup_overrides: the keys and today are compared as isoformat strings
cleanup_overrides(value, today) ==
    PyDict([date \in {k \in DOMAIN value.items :
                        StrGE(isoformat(DateOf(k)), isoformat(DateOf(today)))}
            |-> value.items[date]])

\* The run-state document has the single field last_run.
StateAbsent == [kind |-> "absent", last_run |-> NoDate]
StateInvalid == [kind |-> "invalid", last_run |-> NoDate]
StateNonObject == [kind |-> "nonobject", last_run |-> NoDate]
StateObject(d) == [kind |-> "object", last_run |-> d]

\* load_state: [type, last_run]; {} has last_run = NoDate
load_state(file) ==
    CASE file.kind \in {"absent", "invalid"} -> [type |-> "dict", last_run |-> NoDate]
      [] file.kind = "nonobject" -> [type |-> "list", last_run |-> NoDate]
      [] OTHER -> [type |-> "dict", last_run |-> file.last_run]

\* already_ran_today raises AttributeError when the state is not a dict
already_ran_today_raises(file) == load_state(file).type # "dict"
\* an already_ran_today that forgets the record
already_ran_today_never(file, today) == FALSE
\* an already_ran_today that compares the record with the wrong date
already_ran_today_off_by_one(file, today) == load_state(file).last_run = today - 1
already_ran_today(file, today) == load_state(file).last_run = today

\* record_run raises TypeError when the state is not a dict
record_run_raises(file) == load_state(file).type # "dict"
\* a record_run that loses the date
record_run_lost(file, today) == file
record_run(file, today) == StateObject(today)

\* ------------------------------------------------------------------------
\* State
\* ------------------------------------------------------------------------
VARIABLES
    day, tod,               \* the local clock: datetime.date.today(), time of day
    OVERRIDE_FILE,          \* overrides.json
    STATE_FILE,             \* state.json
    PID_FILE,               \* service.pid: "absent", "invalid", "stale", "live"
    pc,                     \* where the service process is
    today_str,              \* cmd_service: today_str
    overrides,              \* cmd_service: overrides, where a later step reads it (lines 450-453)
    target_time,            \* cmd_service: target_time
    interrupted,            \* the value the last interruptible_sleep returned
    sleep_kind,             \* which sleep of cmd_service is running: "midnight", "target", "cooldown"
    deadline,               \* the tick at which the current wait or ramp ends
    wake_event,             \* _wake_event
    cmd_pc,                 \* where the running command (skip/reschedule/clear) is
    cmd_overrides,          \* the command's overrides dict
    ncmds,                  \* commands issued so far
    completed,              \* history: ramps run to completion, by start date
    failed,                 \* history: a ramp attempt raised on the date of today_str
    skip_consumed,          \* history: dates recorded as done because of a Skip
    wake_outside,           \* history: a wake arrived outside wait() since the last sleep returned
    wake_in_call,           \* history: a wake arrived since the current sleep cleared the event
    dropped,                \* history: a wake request found no service to wake
    switches,               \* run_ramp: the devices
    ramp_pc,                \* run_ramp: where it is
    idx,                    \* run_ramp: index of the device the for loop is at
    brightness,             \* run_ramp: brightness of the schedule entry
    applied,                \* history: levels applied to each device, in order
    errlog,                 \* history: "Error updating" lines logged per device
    total_seconds,          \* run_ramp: total_seconds
    brightness_schedule,    \* run_ramp: brightness_schedule
    time,                   \* time.time(), in ticks of the ramp
    start_time,             \* run_ramp: start_time
    sleep_until,            \* the tick at which the current time.sleep ends
    latency,                \* the most ticks the commands of one level take
    over_budget,            \* history: a level took longer than the gap to the next
    fn_pc,                  \* a function called on its own: "idle", "call", "returned"
    args,                   \* its arguments
    result                  \* the value it returned

clockVars == <<day, tod>>
fileVars == <<OVERRIDE_FILE, STATE_FILE, PID_FILE>>
loopVars == <<pc, today_str, overrides, target_time, interrupted, sleep_kind, deadline>>
cmdVars == <<cmd_pc, cmd_overrides, ncmds>>
histVars == <<completed, failed, skip_consumed, wake_outside, wake_in_call, dropped>>
rampVars == <<switches, ramp_pc, idx, brightness, applied, errlog, total_seconds,
              brightness_schedule, time, start_time, sleep_until, latency, over_budget>>
fnVars == <<fn_pc, args, result>>
vars == <<clockVars, fileVars, loopVars, wake_event, cmdVars, histVars, rampVars, fnVars>>

now == day * TicksPerDay + tod
Horizon == (MaxDay + 1) * TicksPerDay - 1

\* _seconds_until(target) > 0
seconds_until(t) == t - tod
\* now + _seconds_until_midnight()
next_midnight == (day + 1) * TicksPerDay

\* ------------------------------------------------------------------------
\* The clock
\* ------------------------------------------------------------------------
\* Time passes while the service is not running, is blocked in
\* _wake_event.wait (no wake pending, timeout not reached) or is inside the
\* ramp; no command is in the middle of its statements.
Tick ==
    /\ now < Horizon
    /\ cmd_pc = "idle"
    /\ \/ pc \in {"down", "crashed", "exited"}
       \/ pc = "blocked" /\ ~wake_event /\ now < deadline
       \/ pc = "ramping" /\ now < deadline
    /\ IF tod + 1 < TicksPerDay
         THEN tod' = tod + 1 /\ day' = day
         ELSE tod' = 0 /\ day' = day + 1
    /\ UNCHANGED <<fileVars, loopVars, wake_event, cmdVars, histVars, rampVars, fnVars>>

\* ------------------------------------------------------------------------
\* cmd_service
\* ------------------------------------------------------------------------
\* What one block of the loop body decides: the next position, the run
\* state it leaves, the target time, and the sleep it calls.
Outcome(p, st, tt, kind, until, skipped) ==
    [pc |-> p, STATE_FILE |-> st, target_time |-> tt, sleep_kind |-> kind,
     deadline |-> until, skipped |-> skipped]

\* an exception that nothing catches: the process ends, atexit removes the pid file
Uncaught == Outcome("crashed", STATE_FILE, target_time, sleep_kind, deadline, FALSE)
\* interruptible_sleep(_seconds_until_midnight()); continue
SleepUntilMidnight(st, skipped) ==
    Outcome("clear", st, target_time, "midnight", next_midnight, skipped)
\* record_run(); interruptible_sleep(_seconds_until_midnight()); continue
HonourSkip ==
    IF record_run_raises(STATE_FILE) THEN Uncaught
    ELSE SleepUntilMidnight(record_run(STATE_FILE, day), TRUE)

Apply(o) ==
    /\ pc' = o.pc
    /\ STATE_FILE' = o.STATE_FILE
    /\ target_time' = o.target_time
    /\ sleep_kind' = o.sleep_kind
    /\ deadline' = o.deadline
    /\ skip_consumed' = IF o.skipped THEN skip_consumed \cup {day} ELSE skip_consumed
    /\ PID_FILE' = IF o.pc \in {"crashed", "exited"} THEN "absent" ELSE PID_FILE

\* an except branch that marks the day as done
ExceptBranch_records(k) ==
    Outcome("clear", record_run(STATE_FILE, day), target_time, "cooldown", now + k, FALSE)

\* except Exception: log, no record_run, interruptible_sleep(60), continue; the
\* 60 seconds end k ticks of the clock from now
ExceptBranch(k) == Outcome("clear", STATE_FILE, target_time, "cooldown", now + k, FALSE)

\* signal.signal(SIGUSR1, ...); write_pid_file()
ServiceStart ==
    /\ pc = "down"
    /\ pc' = "top"
    /\ PID_FILE' = "live"
    /\ wake_event' = FALSE
    /\ UNCHANGED <<clockVars, OVERRIDE_FILE, STATE_FILE, today_str, overrides, target_time,
                   interrupted, sleep_kind, deadline, cmdVars, histVars, rampVars, fnVars>>

\* the top of an iteration: today_str, load_overrides, already ran today?,
\* skip override?, target time
EvaluateTop(loaded, today) ==
    LET today_override == Get(loaded.items, today) IN
    CASE already_ran_today_raises(STATE_FILE) -> Uncaught
      [] already_ran_today(STATE_FILE, day) -> SleepUntilMidnight(STATE_FILE, FALSE)
      [] loaded.type # "dict" -> Uncaught
      [] today_override.action = "skip" -> HonourSkip
      [] today_override.action = "reschedule" ->
            IF today_override.time = NoTime THEN Uncaught
            ELSE Outcome("L413", STATE_FILE, today_override.time, sleep_kind, deadline, FALSE)
      [] OTHER -> Outcome("L413", STATE_FILE, DEFAULT_RAMP_TIME, sleep_kind, deadline, FALSE)

L385 ==
    /\ pc = "top"
    /\ today_str' = day
    /\ Apply(EvaluateTop(load_overrides(OVERRIDE_FILE), day))
    /\ failed' = IF today_str = day THEN failed ELSE FALSE
    /\ UNCHANGED <<clockVars, OVERRIDE_FILE, overrides, interrupted, wake_event, cmdVars,
                   completed, wake_outside, wake_in_call, dropped, rampVars, fnVars>>

\* wait until the target time
L413 ==
    /\ pc = "L413"
    /\ IF seconds_until(target_time) > 0
         THEN Apply(Outcome("clear", STATE_FILE, target_time, "target",
                            now + seconds_until(target_time), FALSE))
         ELSE Apply(Outcome("L422", STATE_FILE, target_time, sleep_kind, deadline, FALSE))
    /\ UNCHANGED <<clockVars, OVERRIDE_FILE, today_str, overrides, interrupted, wake_event,
                   cmdVars, completed, failed, wake_outside, wake_in_call, dropped, rampVars, fnVars>>

\* a re-check that reads neither the override store nor the run record
Recheck_nothing(loaded, today) ==
    Outcome("L439", STATE_FILE, target_time, sleep_kind, deadline, FALSE)

\* the re-check after the wait: load_overrides, skip override?, already ran today?
Recheck(loaded, today) ==
    LET today_override == Get(loaded.items, today) IN
    CASE loaded.type # "dict" -> Uncaught
      [] today_override.action = "skip" -> HonourSkip
      [] already_ran_today_raises(STATE_FILE) -> Uncaught
      [] already_ran_today(STATE_FILE, day) -> SleepUntilMidnight(STATE_FILE, FALSE)
      [] OTHER -> Outcome("L439", STATE_FILE, target_time, sleep_kind, deadline, FALSE)

L422 ==
    /\ pc = "L422"
    /\ Apply(Recheck(load_overrides(OVERRIDE_FILE), today_str))
    /\ UNCHANGED <<clockVars, OVERRIDE_FILE, today_str, overrides, interrupted, wake_event, cmdVars,
                   completed, failed, wake_outside, wake_in_call, dropped, rampVars, fnVars>>

\* the try block: _authenticate_and_get_switches, then run_ramp begins.
\* The ramp takes up to RampTicks ticks of the clock.
L439 ==
    /\ pc = "L439"
    /\ \/ \* sys.exit(1) in load_config or for an empty device list: SystemExit
          \* is not an Exception, the process ends
          /\ Apply(Outcome("exited", STATE_FILE, target_time, sleep_kind, deadline, FALSE))
          /\ UNCHANGED failed
       \/ \* an Exception from the login, the device listing, a power-on or the
          \* first brightness command: except branch, interruptible_sleep(60)
          /\ \E k \in 0..CooldownTicks : Apply(ExceptBranch(k))
          /\ failed' = TRUE
       \/ \* the ramp is running
          /\ \E k \in 0..RampTicks :
                Apply(Outcome("ramping", STATE_FILE, target_time, sleep_kind, now + k, FALSE))
          /\ UNCHANGED failed
    /\ UNCHANGED <<clockVars, OVERRIDE_FILE, today_str, overrides, interrupted, wake_event,
                   cmdVars, completed, wake_outside, wake_in_call, dropped, rampVars, fnVars>>

\* run_ramp returns; record_run()
L441 ==
    /\ pc = "ramping"
    /\ now >= deadline
    /\ completed' = [completed EXCEPT ![today_str] = @ + 1]
    /\ IF record_run_raises(STATE_FILE)
         THEN /\ \E k \in 0..CooldownTicks : Apply(ExceptBranch(k))
              /\ failed' = TRUE
         ELSE /\ Apply(Outcome("L450", record_run(STATE_FILE, day), target_time,
                               sleep_kind, 0, FALSE))
              /\ UNCHANGED failed
    /\ UNCHANGED <<clockVars, OVERRIDE_FILE, today_str, overrides, interrupted, wake_event,
                   cmdVars, wake_outside, wake_in_call, dropped, rampVars, fnVars>>

\* clean up expired overrides: load_overrides, cleanup_overrides, compare
L450 ==
    /\ pc = "L450"
    /\ LET loaded == load_overrides(OVERRIDE_FILE) IN
       IF loaded.type # "dict" THEN Apply(Uncaught) /\ UNCHANGED overrides
       ELSE IF cleanup_overrides(loaded, day) # loaded
         THEN /\ Apply(Outcome("L453", STATE_FILE, target_time, sleep_kind, deadline, FALSE))
              /\ overrides' = loaded
         ELSE /\ Apply(SleepUntilMidnight(STATE_FILE, FALSE))
              /\ UNCHANGED overrides
    /\ UNCHANGED <<clockVars, OVERRIDE_FILE, today_str, interrupted, wake_event, cmdVars,
                   completed, failed, wake_outside, wake_in_call, dropped, rampVars, fnVars>>

\* save_overrides(cleaned): write_text opens the file, which truncates it ...
L453_open ==
    /\ pc = "L453"
    /\ pc' = "L453w"
    /\ OVERRIDE_FILE' = InvalidFile
    /\ UNCHANGED <<clockVars, STATE_FILE, PID_FILE, today_str, overrides, target_time,
                   interrupted, sleep_kind, deadline, wake_event, cmdVars, histVars, rampVars, fnVars>>

\* ... and then writes the document; sleep until midnight
L453_write ==
    /\ pc = "L453w"
    /\ OVERRIDE_FILE' = save_overrides(cleanup_overrides(overrides, day))
    /\ overrides' = PyDict(EmptyDict)
    /\ Apply(SleepUntilMidnight(STATE_FILE, FALSE))
    /\ UNCHANGED <<clockVars, today_str, interrupted, wake_event, cmdVars,
                   completed, failed, wake_outside, wake_in_call, dropped, rampVars, fnVars>>

\* ------------------------------------------------------------------------
\* interruptible_sleep and the SIGUSR1 handler
\* ------------------------------------------------------------------------
\* an interruptible_sleep that does not clear the event
Clear_keeps_event ==
    /\ pc = "clear"
    /\ pc' = "wait"
    /\ wake_in_call' = FALSE
    /\ UNCHANGED <<clockVars, fileVars, today_str, overrides, target_time, interrupted,
                   sleep_kind, deadline, wake_event, cmdVars, completed, failed,
                   skip_consumed, wake_outside, dropped, rampVars, fnVars>>

\* _wake_event.clear()
Clear ==
    /\ pc = "clear"
    /\ pc' = "wait"
    /\ wake_event' = FALSE
    /\ wake_in_call' = FALSE
    /\ UNCHANGED <<clockVars, fileVars, today_str, overrides, target_time, interrupted,
                   sleep_kind, deadline, cmdVars, completed, failed, skip_consumed,
                   wake_outside, dropped, rampVars, fnVars>>

\* a caller that goes on to the re-check whatever the sleep returned
Return_ignores_flag(flag) ==
    /\ interrupted' = flag
    /\ pc' = IF sleep_kind = "target" THEN "L422" ELSE "top"
    /\ sleep_kind' = "none"
    /\ deadline' = 0
    /\ wake_outside' = FALSE
    /\ wake_in_call' = FALSE
    /\ UNCHANGED <<clockVars, fileVars, today_str, overrides, target_time, wake_event,
                   cmdVars, completed, failed, skip_consumed, dropped, rampVars, fnVars>>

\* interruptible_sleep returns flag; the caller continues: the sleep before
\* the ramp goes on to the re-check unless interrupted, every other sleep is
\* followed by continue (or by the end of the loop body)
Return(flag) ==
    /\ interrupted' = flag
    /\ pc' = IF sleep_kind = "target" /\ ~flag THEN "L422" ELSE "top"
    /\ sleep_kind' = "none"
    /\ deadline' = 0
    /\ wake_outside' = FALSE
    /\ wake_in_call' = FALSE
    /\ UNCHANGED <<clockVars, fileVars, today_str, overrides, target_time, wake_event,
                   cmdVars, completed, failed, skip_consumed, dropped, rampVars, fnVars>>

\* _wake_event.wait(timeout=seconds): returns at once when the event is set,
\* blocks otherwise
Wait ==
    /\ pc = "wait"
    /\ IF wake_event
         THEN Return(TRUE)
         ELSE /\ pc' = "blocked"
              /\ UNCHANGED <<clockVars, fileVars, today_str, overrides, target_time,
                             interrupted, sleep_kind, deadline, wake_event, cmdVars,
                             histVars, rampVars, fnVars>>

\* the blocked wait ends: the event was set, or the timeout was reached
Wakeup ==
    /\ pc = "blocked"
    /\ wake_event \/ now >= deadline
    /\ Return(wake_event)

\* _sigusr1_handler in the service process
sigusr1_handler ==
    /\ wake_event' = TRUE
    /\ wake_outside' = IF pc # "blocked" THEN TRUE ELSE wake_outside
    /\ wake_in_call' = IF pc \in {"wait", "blocked"} THEN TRUE ELSE wake_in_call

\* ------------------------------------------------------------------------
\* The override commands
\* ------------------------------------------------------------------------
day_names == <<"monday", "tuesday", "wednesday", "thursday", "friday", "saturday", "sunday">>
\* day_names.index(low)
index(low) == (CHOOSE i \in 1..7 : day_names[i] = low) - 1
\* date.weekday(): Monday is 0; day 0 of the model is a Monday
weekday(d) == d % 7

\* parse_date_arg: the date for 'today', 'tomorrow' or a day name; NoDate
\* stands for the ArgumentTypeError
\* value.lower(), on the arguments the model passes
lower(value) ==
    CASE value = "TODAY" -> "today"
      [] value = "Tomorrow" -> "tomorrow"
      [] value = "Monday" -> "monday"
      [] value = "SUNDAY" -> "sunday"
      [] OTHER -> value

\* a parse_date_arg without the roll-over of a full week
parse_date_arg_no_rollover(value, today) ==
    LET low == lower(value) IN
    CASE low = "today" -> today
      [] low = "tomorrow" -> today + 1
      [] \E i \in 1..7 : day_names[i] = low ->
            today + ((index(low) - weekday(today)) % 7)
      [] OTHER -> NoDate

parse_date_arg(value, today) ==
    LET low == lower(value) IN
    CASE low = "today" -> today
      [] low = "tomorrow" -> today + 1
      [] \E i \in 1..7 : day_names[i] = low ->
            LET days_ahead == (index(low) - weekday(today)) % 7 IN
            today + (IF days_ahead = 0 THEN 7 ELSE days_ahead)
      [] OTHER -> NoDate

\* the date arguments the commands are given
DateArgs == {"today", "tomorrow"}

\* overrides[date_str] = entry
Put(d, key, entry) == [k \in DOMAIN d \cup {key} |-> IF k = key THEN entry ELSE d[k]]
\* del overrides[date_str]
Del(d, key) == [k \in DOMAIN d \ {key} |-> d[k]]

\* a command begins: one more command, its dict or its position change
CmdStep(next_pc, dict) ==
    /\ cmd_pc' = next_pc
    /\ cmd_overrides' = dict
    /\ ncmds' = ncmds + 1
    /\ UNCHANGED <<clockVars, fileVars, loopVars, wake_event, histVars, rampVars, fnVars>>

\* cmd_skip up to save_overrides; on a document that is not an object the
\* item assignment raises TypeError and the command ends
cmd_skip(arg) ==
    /\ cmd_pc = "idle"
    /\ ncmds < MaxCmds
    /\ parse_date_arg(arg, day) \in Dates
    /\ LET loaded == load_overrides(OVERRIDE_FILE) IN
       IF loaded.type # "dict" THEN CmdStep("idle", PyDict(EmptyDict))
       ELSE CmdStep("save", PyDict(Put(loaded.items, parse_date_arg(arg, day), SkipEntry)))

\* cmd_reschedule up to save_overrides, for a valid time
cmd_reschedule(arg, t) ==
    /\ cmd_pc = "idle"
    /\ ncmds < MaxCmds
    /\ parse_date_arg(arg, day) \in Dates
    /\ LET loaded == load_overrides(OVERRIDE_FILE) IN
       IF loaded.type # "dict" THEN CmdStep("idle", PyDict(EmptyDict))
       ELSE CmdStep("save", PyDict(Put(loaded.items, parse_date_arg(arg, day), Reschedule(t))))

\* cmd_clear with a date: delete and save, or only notify when there is no entry
cmd_clear(arg) ==
    /\ cmd_pc = "idle"
    /\ ncmds < MaxCmds
    /\ parse_date_arg(arg, day) \in Dates
    /\ LET loaded == load_overrides(OVERRIDE_FILE)
           date_str == parse_date_arg(arg, day) IN
       IF loaded.type = "dict" /\ date_str \in DOMAIN loaded.items
         THEN CmdStep("save", PyDict(Del(loaded.items, date_str)))
         ELSE CmdStep("notify", PyDict(EmptyDict))

\* cmd_clear without a date: save_overrides({})
cmd_clear_all ==
    /\ cmd_pc = "idle"
    /\ ncmds < MaxCmds
    /\ CmdStep("save", PyDict(EmptyDict))

\* save_overrides in a command: write_text opens the file, which truncates it ...
save_open ==
    /\ cmd_pc = "save"
    /\ cmd_pc' = "write"
    /\ OVERRIDE_FILE' = InvalidFile
    /\ UNCHANGED <<clockVars, STATE_FILE, PID_FILE, loopVars, wake_event, cmd_overrides,
                   ncmds, histVars, rampVars, fnVars>>

\* ... and then writes the document
save_write ==
    /\ cmd_pc = "write"
    /\ cmd_pc' = "notify"
    /\ OVERRIDE_FILE' = save_overrides(cmd_overrides)
    /\ UNCHANGED <<clockVars, STATE_FILE, PID_FILE, loopVars, wake_event, cmd_overrides,
                   ncmds, histVars, rampVars, fnVars>>

\* a notify_service that lets the error of a missing service surface
notify_service_raises ==
    /\ cmd_pc = "notify"
    /\ cmd_pc' = IF PID_FILE = "live" THEN "idle" ELSE "error"
    /\ cmd_overrides' = PyDict(EmptyDict)
    /\ IF PID_FILE = "live"
         THEN sigusr1_handler /\ UNCHANGED dropped
         ELSE dropped' = TRUE /\ UNCHANGED <<wake_event, wake_outside, wake_in_call>>
    /\ UNCHANGED <<clockVars, fileVars, loopVars, ncmds, completed, failed,
                   skip_consumed, rampVars, fnVars>>

\* notify_service: the pid file is read and SIGUSR1 is sent; a missing file,
\* a content that is not a number and a process that does not exist are
\* swallowed.  The command ends ("idle"); "error" would be an exception
\* surfacing.
notify_service ==
    /\ cmd_pc = "notify"
    /\ cmd_pc' = "idle"
    /\ cmd_overrides' = PyDict(EmptyDict)
    /\ IF PID_FILE = "live"
         THEN sigusr1_handler /\ UNCHANGED dropped
         ELSE dropped' = TRUE /\ UNCHANGED <<wake_event, wake_outside, wake_in_call>>
    /\ UNCHANGED <<clockVars, fileVars, loopVars, ncmds, completed, failed,
                   skip_consumed, rampVars, fnVars>>

\* ------------------------------------------------------------------------
\* The scheduler and the commands
\* ------------------------------------------------------------------------
\* the documents the service may find: absent, unparseable, not an object,
\* or an object with at most an entry for the first day, well-formed or not
InitDicts == {EmptyDict} \cup {(0 :> e) : e \in GoodEntries \cup BadEntries}
InitOverrideFiles ==
    {AbsentFile, InvalidFile, NonObjectFile} \cup {ObjectFile(d) : d \in InitDicts}
InitStateFiles == {StateAbsent, StateInvalid, StateNonObject, StateObject(0)}

\* no function is called on its own
FnIdle ==
    /\ fn_pc = "idle"
    /\ args = <<>>
    /\ result = <<>>

RampIdle ==
    /\ switches = <<>>
    /\ ramp_pc = "idle"
    /\ idx = 0
    /\ brightness = 0
    /\ applied = <<>>
    /\ errlog = <<>>
    /\ total_seconds = 0
    /\ brightness_schedule = <<>>
    /\ time = 0
    /\ start_time = 0
    /\ sleep_until = 0
    /\ latency = 0
    /\ over_budget = FALSE

Init ==
    /\ day = 0
    /\ tod = 0
    /\ OVERRIDE_FILE \in InitOverrideFiles
    /\ STATE_FILE \in InitStateFiles
    /\ PID_FILE \in {"absent", "invalid", "stale"}
    /\ pc = "down"
    /\ today_str = NoDate
    /\ overrides = PyDict(EmptyDict)
    /\ target_time = NoTime
    /\ interrupted = FALSE
    /\ sleep_kind = "none"
    /\ deadline = 0
    /\ wake_event = FALSE
    /\ cmd_pc = "idle"
    /\ cmd_overrides = PyDict(EmptyDict)
    /\ ncmds = 0
    /\ completed = [d \in Dates |-> 0]
    /\ failed = FALSE
    /\ skip_consumed = {}
    /\ wake_outside = FALSE
    /\ wake_in_call = FALSE
    /\ dropped = FALSE
    /\ RampIdle
    /\ FnIdle

Next ==
    \/ Tick
    \/ ServiceStart
    \/ L385
    \/ L413
    \/ L422
    \/ L439
    \/ L441
    \/ L450
    \/ L453_open
    \/ L453_write
    \/ Clear
    \/ Wait
    \/ Wakeup
    \/ \E arg \in DateArgs : cmd_skip(arg)
    \/ \E arg \in DateArgs : \E t \in ReschedTimes : cmd_reschedule(arg, t)
    \/ \E arg \in DateArgs : cmd_clear(arg)
    \/ cmd_clear_all
    \/ save_open
    \/ save_write
    \/ notify_service

Spec == Init /\ [][Next]_vars

\* ------------------------------------------------------------------------
\* Floating-point numbers and calculate_brightness_times
\* ------------------------------------------------------------------------
\* A Python float is a binary floating-point number: zero, or m * 2^e with
\* a significand m of Precision bits (2^(Precision-1) <= m < 2^Precision).
\* Every operation returns the float nearest to the exact result, ties to
\* even.  (CPython has 53 bits; the model has Precision bits.)
RECURSIVE pow2(_)
pow2(n) == IF n = 0 THEN 1 ELSE 2 * pow2(n - 1)

Zero == [m |-> 0, e |-> 0]

\* the integer nearest to n / d, ties to even
RoundHalfEven(n, d) ==
    LET q == n \div d
        r == n % d IN
    IF 2 * r > d \/ (2 * r = d /\ q % 2 = 1) THEN q + 1 ELSE q

\* the float nearest to (n / d) * 2^e, for n >= 0 and d > 0
RECURSIVE Nearest(_, _, _)
Nearest(n, d, e) ==
    IF n = 0 THEN Zero
    ELSE IF n >= d * pow2(Precision) THEN Nearest(n, 2 * d, e + 1)
    ELSE IF n < d * pow2(Precision - 1) THEN Nearest(2 * n, d, e - 1)
    ELSE LET m == RoundHalfEven(n, d) IN
         IF m = pow2(Precision) THEN [m |-> pow2(Precision - 1), e |-> e + 1]
         ELSE [m |-> m, e |-> e]

\* float(n) of an int n
Float(n) == Nearest(n, 1, 0)
\* a * b and a / b on floats
fmul(a, b) == Nearest(a.m * b.m, 1, a.e + b.e)
fdiv(a, b) == Nearest(a.m, b.m, a.e - b.e)
\* a < b on floats that are not negative
Less(a, b) ==
    IF b.m = 0 THEN FALSE
    ELSE IF a.m = 0 THEN TRUE
    ELSE a.e < b.e \/ (a.e = b.e /\ a.m < b.m)

\* the natural logarithm of 1..100 in units of 2^-21
LogTable ==
    <<
       0, 1453635, 2303957, 2907270, 3375236, 3757592, 4080869, 4360905, 4607914, 4828871,
       5028751, 5211227, 5379089, 5534504, 5679193, 5814540, 5941679, 6061549, 6174936, 6282506,
       6384826, 6482386, 6575608, 6664862, 6750472, 6832724, 6911871, 6988139, 7061731, 7132828,
       7201593, 7268175, 7332708, 7395314, 7456105, 7515184, 7572644, 7628571, 7683046, 7736141,
       7787925, 7838461, 7887808, 7936021, 7983150, 8029243, 8074345, 8118497, 8161739, 8204107,
       8245636, 8286359, 8326306, 8365506, 8403987, 8441774, 8478893, 8515366, 8551216, 8586463,
       8621127, 8655228, 8688783, 8721810, 8754325, 8786343, 8817880, 8848949, 8879565, 8909740,
       8939488, 8968819, 8997746, 9026279, 9054429, 9082206, 9109620, 9136681, 9163396, 9189776,
       9215828, 9241560, 9266980, 9292096, 9316915, 9341443, 9365688, 9389656, 9413353, 9436785,
       9459958, 9482878, 9505550, 9527980, 9550172, 9572132, 9593864, 9615374, 9636665, 9657742 >>
\* math.log(x) for x = 1.0 .. 100.0: the float nearest to the logarithm
log(x) == Nearest(LogTable[x], 1, 0 - 21)

\* a calculate_brightness_times that does not divide by log_ratio
calculate_brightness_times_unscaled(seconds) ==
    [level \in min_brightness..max_brightness |->
        [t |-> IF level = min_brightness THEN Zero
               ELSE fmul(Float(seconds), log(level \div min_brightness)),
         brightness |-> level]]

\* calculate_brightness_times: the list of (t, brightness), brightness from
\* 1 to 100 in the order of the appends
calculate_brightness_times(seconds) ==
    LET log_ratio == log(max_brightness \div min_brightness) IN
    [level \in min_brightness..max_brightness |->
        [t |-> IF level = min_brightness THEN Zero
               ELSE fdiv(fmul(Float(seconds), log(level \div min_brightness)),
                         log_ratio),
         brightness |-> level]]

\* ------------------------------------------------------------------------
\* run_ramp, command by command
\* ------------------------------------------------------------------------
\* time.time() is read in ticks: TicksPerRamp ticks make up the duration of
\* the ramp, and a float number of seconds is the nearest tick.
Ticks(t) ==
    IF t.e < 0 THEN RoundHalfEven(t.m * TicksPerRamp, total_seconds * pow2(0 - t.e))
    ELSE RoundHalfEven(t.m * pow2(t.e) * TicksPerRamp, total_seconds)

\* A device: its power attribute and the attributes whose update raises.
Devices == [power : {"ON", "OFF"}, raises : SUBSET {"power", "brightness"}]
DeviceLists == UNION {[1..n -> Devices] : n \in 0..MaxSwitches}

\* switch.update_attributes({attr: value}) on device i
Command(i, attr, value) ==
    [dev |-> i, attr |-> attr, value |-> value, ok |-> attr \notin switches[i].raises]

\* the frame of a step of run_ramp
RampFrame ==
    UNCHANGED <<clockVars, fileVars, loopVars, wake_event, cmdVars, histVars, fnVars,
                total_seconds, latency>>

\* if not switches: log and return
R267 ==
    /\ ramp_pc = "L267"
    /\ IF Len(switches) = 0
         THEN ramp_pc' = "returned" /\ idx' = 0
         ELSE ramp_pc' = "L275" /\ idx' = 1
    /\ UNCHANGED <<switches, brightness, applied, errlog, brightness_schedule, time,
                   start_time, sleep_until, over_budget>>
    /\ RampFrame

\* for switch in switches: turn it on unless its power is ON; an error
\* propagates out of run_ramp.  Then calculate_brightness_times.
R275 ==
    /\ ramp_pc = "L275"
    /\ IF idx > Len(switches)
         THEN /\ ramp_pc' = "L284"
              /\ idx' = 1
              /\ brightness_schedule' = calculate_brightness_times(total_seconds)
              /\ UNCHANGED <<switches, applied>>
         ELSE /\ UNCHANGED brightness_schedule
              /\ IF switches[idx].power = "ON"
                   THEN /\ idx' = idx + 1
                        /\ UNCHANGED <<ramp_pc, switches, applied>>
                   ELSE /\ applied' = Append(applied, Command(idx, "power", 0))
                        /\ IF Command(idx, "power", 0).ok
                             THEN /\ switches' = [switches EXCEPT ![idx].power = "ON"]
                                  /\ idx' = idx + 1
                                  /\ UNCHANGED ramp_pc
                             ELSE /\ ramp_pc' = "raised"
                                  /\ UNCHANGED <<switches, idx>>
    /\ UNCHANGED <<brightness, errlog, time, start_time, sleep_until, over_budget>>
    /\ RampFrame

\* for switch in switches: brightness 1; an error propagates out of
\* run_ramp.  The commands have taken latency ticks when start_time is read.
R284 ==
    /\ ramp_pc = "L284"
    /\ IF idx > Len(switches)
         THEN /\ ramp_pc' = "L289"
              /\ brightness' = min_brightness
              /\ time' = time + latency
              /\ start_time' = time + latency
              /\ UNCHANGED <<idx, applied>>
         ELSE /\ applied' = Append(applied, Command(idx, "brightness", min_brightness))
              /\ IF Command(idx, "brightness", min_brightness).ok
                   THEN idx' = idx + 1 /\ UNCHANGED ramp_pc
                   ELSE ramp_pc' = "raised" /\ UNCHANGED idx
              /\ UNCHANGED <<brightness, time, start_time>>
    /\ UNCHANGED <<switches, errlog, brightness_schedule, sleep_until, over_budget>>
    /\ RampFrame

\* a loop that waits for the gap between two entries of the schedule
R289_from_previous_step ==
    /\ ramp_pc = "L289"
    /\ IF brightness < max_brightness
         THEN LET sleep_duration == Ticks(brightness_schedule[brightness + 1].t)
                                        - Ticks(brightness_schedule[brightness].t) IN
              /\ brightness' = brightness + 1
              /\ IF sleep_duration > 0
                   THEN /\ ramp_pc' = "sleep"
                        /\ sleep_until' = time + sleep_duration
                        /\ UNCHANGED idx
                   ELSE /\ ramp_pc' = "L299"
                        /\ idx' = 1
                        /\ UNCHANGED sleep_until
         ELSE /\ ramp_pc' = "returned"
              /\ UNCHANGED <<brightness, idx, sleep_until>>
    /\ UNCHANGED <<switches, applied, errlog, brightness_schedule, time, start_time,
                   over_budget>>
    /\ RampFrame

\* for target_time, brightness in brightness_schedule[1:]: the next entry of
\* the schedule; elapsed and sleep_duration; time.sleep if it is positive;
\* or the end of the ramp
R289 ==
    /\ ramp_pc = "L289"
    /\ IF brightness < max_brightness
         THEN LET elapsed == time - start_time
                  sleep_duration == Ticks(brightness_schedule[brightness + 1].t) - elapsed IN
              /\ brightness' = brightness + 1
              /\ IF sleep_duration > 0
                   THEN /\ ramp_pc' = "sleep"
                        /\ sleep_until' = time + sleep_duration
                        /\ UNCHANGED idx
                   ELSE /\ ramp_pc' = "L299"
                        /\ idx' = 1
                        /\ UNCHANGED sleep_until
         ELSE /\ ramp_pc' = "returned"
              /\ UNCHANGED <<brightness, idx, sleep_until>>
    /\ UNCHANGED <<switches, applied, errlog, brightness_schedule, time, start_time,
                   over_budget>>
    /\ RampFrame

\* time passes in time.sleep
SleepTick ==
    /\ ramp_pc = "sleep"
    /\ time < sleep_until
    /\ time' = time + 1
    /\ UNCHANGED <<switches, ramp_pc, idx, brightness, applied, errlog, brightness_schedule,
                   start_time, sleep_until, over_budget>>
    /\ RampFrame

\* a time.sleep that a signal ends
R295_ended_by_signal ==
    /\ ramp_pc = "sleep"
    /\ time >= sleep_until \/ wake_event
    /\ ramp_pc' = "L299"
    /\ idx' = 1
    /\ UNCHANGED <<switches, brightness, applied, errlog, brightness_schedule, time,
                   start_time, sleep_until, over_budget>>
    /\ RampFrame

\* time.sleep returns when the duration is over; it goes on sleeping after
\* a signal whose handler returns
R295 ==
    /\ ramp_pc = "sleep"
    /\ time >= sleep_until
    /\ ramp_pc' = "L299"
    /\ idx' = 1
    /\ UNCHANGED <<switches, brightness, applied, errlog, brightness_schedule, time,
                   start_time, sleep_until, over_budget>>
    /\ RampFrame

\* the ticks between the schedule entry of this brightness and the next
Gap(level) ==
    Ticks(brightness_schedule[level + 1].t) - Ticks(brightness_schedule[level].t)

\* a loop over the devices that starts from the last one
R299_last_device_first ==
    /\ ramp_pc = "L299"
    /\ IF idx > Len(switches)
         THEN /\ ramp_pc' = "L289"
              /\ \E k \in 0..latency :
                    /\ time' = time + k
                    /\ over_budget' = (\/ over_budget
                                       \/ brightness < max_brightness /\ k > Gap(brightness))
              /\ UNCHANGED <<idx, applied, errlog>>
         ELSE LET last == Len(switches) + 1 - idx IN
              /\ applied' = Append(applied, Command(last, "brightness", brightness))
              /\ errlog' = IF Command(last, "brightness", brightness).ok THEN errlog
                           ELSE [errlog EXCEPT ![last] = @ + 1]
              /\ idx' = idx + 1
              /\ UNCHANGED <<ramp_pc, time, over_budget>>
    /\ UNCHANGED <<switches, brightness, brightness_schedule, start_time, sleep_until>>
    /\ RampFrame

\* for switch in switches: try the brightness command, log an error.  The
\* log line and the commands of one level have taken k ticks at the end.
R299 ==
    /\ ramp_pc = "L299"
    /\ IF idx > Len(switches)
         THEN /\ ramp_pc' = "L289"
              /\ \E k \in 0..latency :
                    /\ time' = time + k
                    /\ over_budget' = (\/ over_budget
                                       \/ brightness < max_brightness /\ k > Gap(brightness))
              /\ UNCHANGED <<idx, applied, errlog>>
         ELSE /\ applied' = Append(applied, Command(idx, "brightness", brightness))
              /\ errlog' = IF Command(idx, "brightness", brightness).ok THEN errlog
                           ELSE [errlog EXCEPT ![idx] = @ + 1]
              /\ idx' = idx + 1
              /\ UNCHANGED <<ramp_pc, time, over_budget>>
    /\ UNCHANGED <<switches, brightness, brightness_schedule, start_time, sleep_until>>
    /\ RampFrame

\* SIGUSR1 arrives while cmd_service is in run_ramp: the handler runs
RampWake ==
    /\ pc = "ramping"
    /\ ramp_pc \notin {"returned", "raised"}
    /\ ~wake_event
    /\ sigusr1_handler
    /\ UNCHANGED <<clockVars, fileVars, loopVars, cmdVars, completed, failed, skip_consumed,
                   dropped, rampVars, fnVars>>

\* cmd_service has called run_ramp
InRamp ==
    /\ day = 0
    /\ tod = 0
    /\ OVERRIDE_FILE = AbsentFile
    /\ STATE_FILE = StateAbsent
    /\ PID_FILE = "live"
    /\ pc = "ramping"
    /\ today_str = 0
    /\ overrides = PyDict(EmptyDict)
    /\ target_time = DEFAULT_RAMP_TIME
    /\ interrupted = FALSE
    /\ sleep_kind = "none"
    /\ deadline = 0
    /\ wake_event = FALSE
    /\ cmd_pc = "idle"
    /\ cmd_overrides = PyDict(EmptyDict)
    /\ ncmds = 0
    /\ completed = [d \in Dates |-> 0]
    /\ failed = FALSE
    /\ skip_consumed = {}
    /\ wake_outside = FALSE
    /\ wake_in_call = FALSE
    /\ dropped = FALSE
    /\ ramp_pc = "L267"
    /\ idx = 0
    /\ brightness = 0
    /\ applied = <<>>
    /\ errlog = [i \in 1..Len(switches) |-> 0]
    /\ brightness_schedule = <<>>
    /\ time = 0
    /\ start_time = 0
    /\ sleep_until = 0
    /\ over_budget = FALSE
    /\ FnIdle

\* run_ramp is called on a list of devices, working or not, that answer at once
InitRamp ==
    /\ switches \in DeviceLists
    /\ total_seconds = 2 * 60
    /\ latency = 0
    /\ InRamp

NextRamp == R267 \/ R275 \/ R284 \/ R289 \/ SleepTick \/ R295 \/ R299 \/ RampWake

SpecRamp == InitRamp /\ [][NextRamp]_vars

\* MaxSwitches working devices that are on
WorkingList == [i \in 1..MaxSwitches |-> [power |-> "ON", raises |-> {}]]

\* run_ramp is called, for the test ramp or the daily ramp, on working
\* devices whose commands take up to MaxLatency ticks per brightness level
InitRampClock ==
    /\ switches = WorkingList
    /\ total_seconds \in {2 * 60, 30 * 60}
    /\ latency \in 0..MaxLatency
    /\ InRamp

SpecRampClock == InitRampClock /\ [][NextRamp]_vars

\* ------------------------------------------------------------------------
\* Functions called on their own
\* ------------------------------------------------------------------------
\* no service, no command and no ramp is running
Quiescent ==
    /\ day = 0
    /\ tod = 0
    /\ OVERRIDE_FILE = AbsentFile
    /\ STATE_FILE = StateAbsent
    /\ PID_FILE = "absent"
    /\ pc = "down"
    /\ today_str = NoDate
    /\ overrides = PyDict(EmptyDict)
    /\ target_time = NoTime
    /\ interrupted = FALSE
    /\ sleep_kind = "none"
    /\ deadline = 0
    /\ wake_event = FALSE
    /\ cmd_pc = "idle"
    /\ cmd_overrides = PyDict(EmptyDict)
    /\ ncmds = 0
    /\ completed = [d \in Dates |-> 0]
    /\ failed = FALSE
    /\ skip_consumed = {}
    /\ wake_outside = FALSE
    /\ wake_in_call = FALSE
    /\ dropped = FALSE
    /\ RampIdle

\* the frame of a call
FnFrame ==
    UNCHANGED <<clockVars, fileVars, loopVars, wake_event, cmdVars, histVars, rampVars>>

\* the date arguments parse_date_arg is called on: the keywords, the day
\* names (some not in lower case) and a word that is none of them
DateValues ==
    {"today", "tomorrow", "TODAY", "Tomorrow", "Monday", "SUNDAY", "someday"}
        \cup {day_names[i] : i \in 1..7}

InitDate ==
    /\ Quiescent
    /\ fn_pc = "call"
    /\ args \in [value : DateValues, today : 0..MaxToday]
    /\ result = <<>>

\* parse_date_arg(value) with datetime.date.today() = today
CallParseDateArg ==
    /\ fn_pc = "call"
    /\ fn_pc' = "returned"
    /\ result' = parse_date_arg(args.value, args.today)
    /\ UNCHANGED args
    /\ FnFrame

NextDate == CallParseDateArg

SpecDate == InitDate /\ [][NextDate]_vars

\* ------------------------------------------------------------------------
\* calculate_brightness_times called on its own
\* ------------------------------------------------------------------------
\* the durations: whole minutes, among them the 2 minutes of the test ramp
\* and the 30 minutes of the daily ramp
Durations == {60 * k : k \in 1..MaxMinutes}

InitSchedule ==
    /\ Quiescent
    /\ fn_pc = "call"
    /\ args \in [total_seconds : Durations]
    /\ result = <<>>

CallCalculateBrightnessTimes ==
    /\ fn_pc = "call"
    /\ fn_pc' = "returned"
    /\ result' = calculate_brightness_times(args.total_seconds)
    /\ UNCHANGED args
    /\ FnFrame

NextSchedule == CallCalculateBrightnessTimes

SpecSchedule == InitSchedule /\ [][NextSchedule]_vars

\* ------------------------------------------------------------------------
\* cleanup_overrides called on its own
\* ------------------------------------------------------------------------
\* the dates of the entries and of today: they run from 2026-12-28 over the
\* end of the year
KeyDays == 0..MaxKeyDay
\* the mappings with up to MaxEntries entries
CleanupInputs ==
    UNION {[keys -> {SkipEntry, Reschedule(0)}] :
              keys \in {k \in SUBSET KeyDays : Cardinality(k) <= MaxEntries}}

InitCleanup ==
    /\ Quiescent
    /\ fn_pc = "call"
    /\ args \in [overrides : {PyDict(d) : d \in CleanupInputs}, today : KeyDays]
    /\ result = <<>>

\* cleaned = cleanup_overrides(overrides) with datetime.date.today() = today:
\* the dict comprehension builds a new dict
CallCleanupOverrides ==
    /\ fn_pc = "call"
    /\ fn_pc' = "returned"
    /\ result' = <<cleanup_overrides(args.overrides, args.today)>>
    /\ UNCHANGED args
    /\ FnFrame

\* cleanup_overrides(cleaned) on the same day
CallCleanupOverridesAgain ==
    /\ fn_pc = "returned"
    /\ fn_pc' = "again"
    /\ result' = Append(result, cleanup_overrides(result[1], args.today))
    /\ UNCHANGED args
    /\ FnFrame

NextCleanup == CallCleanupOverrides \/ CallCleanupOverridesAgain

SpecCleanup == InitCleanup /\ [][NextCleanup]_vars

\* ------------------------------------------------------------------------
\* Properties
\* ------------------------------------------------------------------------
\* the steps in which interruptible_sleep returns to cmd_service
SleepReturns == pc \in {"wait", "blocked"} /\ pc' \notin {"wait", "blocked"}
\* the step in which the loop, past its last check, goes on to run the ramp
RampStarts == pc = "L422" /\ pc' = "L439"
\* the entry the override store holds for date d
Stored(d) == Get(load_overrides(OVERRIDE_FILE).items, d)
LateTime == TicksPerDay - 1

\* C1: for every date d, at most one ramp started on d runs to successful
\* completion, whatever failures, retries, wake requests and commands
\* are interleaved.
C1_AtMostOncePerDay == \A d \in Dates : completed[d] <= 1

\* a ramp completed on a date on which an earlier attempt had failed, and the
\* loop, woken afterwards on the same day, went back to sleep until midnight
C1_Witness ==
    /\ completed[day] = 1
    /\ failed
    /\ today_str = day
    /\ interrupted
    /\ pc = "blocked"
    /\ sleep_kind = "midnight"

\* C2: when the loop evaluates a date for which the store holds a Skip (the
\* run-state document being readable), it records the date as done and
\* sleeps until midnight without running the ramp; and on a date consumed
\* by a Skip no ramp attempt begins any more, whatever the store holds later.
C2_SkipConsumesDay ==
    [][/\ \A d \in Dates :
            (/\ \/ pc = "top" /\ d = day
                \/ pc = "L422" /\ d = today_str
             /\ pc' # pc
             /\ ~already_ran_today_raises(STATE_FILE)
             /\ load_overrides(OVERRIDE_FILE).type = "dict"
             /\ Stored(d).action = "skip")
            => /\ load_state(STATE_FILE').last_run = d
               /\ pc' = "clear"
               /\ sleep_kind' = "midnight"
               /\ completed' = completed
       /\ (day' \in skip_consumed' => pc' \notin {"L439", "ramping"})]_vars

\* a Skip was consumed today, a later command took the Skip out of the store,
\* its wake request was served, and the loop is asleep until midnight again
C2_Witness ==
    /\ day \in skip_consumed
    /\ Stored(day).action # "skip"
    /\ OVERRIDE_FILE.kind = "object"
    /\ cmd_pc = "idle"
    /\ ncmds = MaxCmds
    /\ interrupted
    /\ ~wake_event
    /\ pc = "blocked"
    /\ sleep_kind = "midnight"

\* C3: when the loop goes on to run the ramp and a finished reschedule command
\* has left Reschedule(t) for today in the store, the time is not before t;
\* when the store holds nothing for today, the time is not before the default.
C3_NotBeforeTarget ==
    [][(RampStarts /\ cmd_pc = "idle")
        => /\ (Stored(day).action = "reschedule" /\ Stored(day).time # NoTime)
                => tod >= Stored(day).time
           /\ Stored(day).action = "none" => tod >= DEFAULT_RAMP_TIME]_vars

\* C4: a wake request delivered while the loop was not blocked in a sleep makes
\* the next interruptible_sleep return 'interrupted'.
C4_NoLostWakeup == [][(SleepReturns /\ wake_outside) => interrupted']_vars

\* C5: interruptible_sleep returns 'interrupted' exactly when a wake request
\* arrived during the call, and then without the clock advancing once the
\* request is there; it returns 'expired' at the end of the duration, and is
\* never blocked beyond it.
C5_SleepResult ==
    [][/\ SleepReturns => /\ interrupted' <=> wake_in_call
                          /\ ~interrupted' => now = deadline
                          /\ now <= deadline
       /\ (pc = "blocked" /\ wake_event) => now' = now
       /\ (pc = "blocked" /\ now >= deadline) => now' = now]_vars

\* the sleep is blocked, a wake request has arrived, the duration is not over
C5_Witness ==
    /\ pc = "blocked"
    /\ wake_event
    /\ wake_in_call
    /\ now < deadline

Levels(i) ==
    {applied[j].value : j \in {k \in DOMAIN applied :
        applied[k].dev = i /\ applied[k].attr = "brightness" /\ applied[k].ok}}

\* C7: with one device that raises on every brightness command and no other
\* faulty device, no exception escapes run_ramp, and when it returns every
\* other device took every level 1..100 and the failure was logged 100 times.
C7_FaultIsolation ==
    \A b \in DOMAIN switches :
        (/\ switches[b].raises = {"brightness"}
         /\ \A i \in DOMAIN switches \ {b} : switches[i].raises = {})
        => /\ ramp_pc # "raised"
           /\ ramp_pc = "returned" =>
                /\ errlog[b] = max_brightness
                /\ \A i \in DOMAIN switches \ {b} : Levels(i) = min_brightness..max_brightness

\* C8: notify_service with no service registered ends normally and leaves the
\* override store and the run record as they are; and every evaluation at
\* the top of the loop, the first one after a start included, follows the
\* entry the store then holds for today.
C8_NotifyWithoutService ==
    [][/\ (cmd_pc = "notify" /\ cmd_pc' # "notify" /\ PID_FILE # "live")
            => /\ cmd_pc' = "idle"
               /\ UNCHANGED <<OVERRIDE_FILE, STATE_FILE, wake_event>>
       /\ (/\ pc = "top"
           /\ pc' \notin {"top", "crashed"}
           /\ ~already_ran_today(STATE_FILE, day))
            => /\ Stored(day).action = "skip" => day \in skip_consumed'
               /\ Stored(day).action = "reschedule" =>
                    pc' = "L413" /\ target_time' = Stored(day).time
               /\ Stored(day).action = "none" =>
                    pc' = "L413" /\ target_time' = DEFAULT_RAMP_TIME]_vars

\* the only command so far rescheduled the second day while no service was
\* running; its wake request was dropped; the service, started later, waits
\* for the rescheduled time on that day
C8_Witness ==
    /\ dropped
    /\ ncmds = 1
    /\ cmd_pc = "idle"
    /\ day = 1
    /\ today_str = 1
    /\ pc = "L413"
    /\ target_time = LateTime
    /\ Stored(1) = Reschedule(LateTime)
    /\ STATE_FILE.kind = "absent"

\* C9: whatever the override and run-state documents contain, the scheduler
\* loop does not terminate.
C9_CorruptNeverFatal == pc # "crashed"

\* C10: while save_overrides is writing, the store reads as the previous
\* mapping or as the new one.
C10_AtomicSave ==
    [][/\ (cmd_pc = "save" /\ cmd_pc' = "write")
            => load_overrides(OVERRIDE_FILE') \in {load_overrides(OVERRIDE_FILE), cmd_overrides}
       /\ (pc = "L453" /\ pc' = "L453w")
            => load_overrides(OVERRIDE_FILE') \in
                    {load_overrides(OVERRIDE_FILE), cleanup_overrides(overrides, day)}]_vars

\* C11: for every today and every weekday name, parse_date_arg returns a date 1
\* to 7 days after today that falls on the named weekday, and 7 days after
\* today when the name is today's weekday; 'today' gives today and
\* 'tomorrow' the day after.
C11_NextOccurrence ==
    fn_pc = "returned" =>
        LET low == lower(args.value)
            today == args.today IN
        /\ low = "today" => result = today
        /\ low = "tomorrow" => result = today + 1
        /\ (\E i \in 1..7 : day_names[i] = low) =>
                /\ result - today \in 1..7
                /\ weekday(result) = index(low)
                /\ weekday(today) = index(low) => result = today + 7

\* today is a Sunday of the second week, the argument names Sunday, and the
\* date returned is the Sunday a week later
C11_Witness ==
    /\ fn_pc = "returned"
    /\ args.value = "SUNDAY"
    /\ args.today = 13
    /\ result = 20

\* the position of a float that is not negative among the floats in
\* increasing order: neighbours differ by one
Ordinal(a) ==
    IF a.m = 0 THEN 0
    ELSE (a.e + 64) * pow2(Precision - 1) + (a.m - pow2(Precision - 1)) + 1
\* the schedule has 100 entries, the levels 1..100 in order, strictly
\* increasing offsets, and offset 0 for level 1
ScheduleShape(s) ==
    /\ Len(s) = 100
    /\ \A b \in 1..100 : s[b].brightness = b
    /\ s[1].t = Zero
    /\ \A b1 \in 1..100 : \A b2 \in 1..100 : b1 < b2 => Less(s[b1].t, s[b2].t)

\* C12: for every duration T > 0 the schedule has 100 entries, levels 1..100
\* in order, strictly increasing offsets, offset(1) = 0 and offset(100) = T.
C12_ScheduleExact ==
    fn_pc = "returned" =>
        /\ ScheduleShape(result)
        /\ result[100].t = Float(args.total_seconds)

\* C12, amended: for every duration T > 0 the schedule has 100 entries,
\* levels 1..100 in order, strictly increasing offsets, offset(1) = 0
\* exactly, and offset(100) is T or a float next to T.
C12_ScheduleWithinRounding ==
    fn_pc = "returned" =>
        /\ ScheduleShape(result)
        /\ Ordinal(result[100].t) - Ordinal(Float(args.total_seconds)) \in {0 - 1, 0, 1}

\* the schedule of the 30-minute ramp
C12_Witness ==
    /\ fn_pc = "returned"
    /\ args.total_seconds = 1800
    /\ Len(result) = 100
    /\ Less(result[99].t, result[100].t)

\* the step in which the try block calls run_ramp
RampBegins == pc = "L439" /\ pc' = "ramping"

\* C13: whenever the loop starts a ramp (it passes its last check, and it
\* calls run_ramp), the date in the run record is not the current date.
C13_RecordDiffersAtStart ==
    [][(RampStarts \/ RampBegins) =>
            /\ load_state(STATE_FILE).last_run # day
            /\ load_state(STATE_FILE').last_run # day']_vars

\* a ramp is running on the second day while the run record holds the first
\* day, on which a ramp ran to completion
C13_Witness ==
    /\ pc = "ramping"
    /\ day = 1
    /\ today_str = 1
    /\ completed[0] = 1
    /\ STATE_FILE = StateObject(0)

\* C14: when the sleep before the ramp returns 'interrupted', the loop is at
\* the top of a new iteration without having run the ramp or written a file;
\* and the evaluation at the top after an interrupted sleep reads the run
\* record and the store as they are then: already run -> sleep until
\* midnight; Skip -> record and sleep until midnight; Reschedule(t) -> wait
\* for t; nothing -> wait for the default time.  It never goes straight to
\* the ramp.
C14_InterruptRestarts ==
    [][/\ (SleepReturns /\ sleep_kind = "target" /\ interrupted')
            => /\ pc' = "top"
               /\ UNCHANGED <<completed, STATE_FILE, OVERRIDE_FILE>>
       /\ (pc = "top" /\ interrupted /\ pc' \notin {"top", "crashed"})
            => /\ today_str' = day
               /\ pc' \in {"clear", "L413"}
               /\ already_ran_today(STATE_FILE, day)
                    => pc' = "clear" /\ sleep_kind' = "midnight" /\ STATE_FILE' = STATE_FILE
               /\ ~already_ran_today(STATE_FILE, day)
                    => /\ Stored(day).action = "skip"
                            => /\ pc' = "clear" /\ sleep_kind' = "midnight"
                               /\ load_state(STATE_FILE').last_run = day
                       /\ Stored(day).action = "reschedule"
                            => pc' = "L413" /\ target_time' = Stored(day).time
                       /\ Stored(day).action = "none"
                            => pc' = "L413" /\ target_time' = DEFAULT_RAMP_TIME]_vars

\* the sleep until the default time was interrupted by the wake request of a
\* reschedule command, and the loop now sleeps until the new time
C14_Witness ==
    /\ pc = "blocked"
    /\ sleep_kind = "target"
    /\ interrupted
    /\ ~failed
    /\ day = 0
    /\ tod = 0
    /\ ncmds = 1
    /\ cmd_pc = "idle"
    /\ ~dropped
    /\ Stored(0) = Reschedule(LateTime)
    /\ target_time = LateTime
    /\ deadline = LateTime

\* C15: when the loop is at the re-check after the sleep before the ramp (the
\* sleep expired, or there was nothing to wait for) and the store holds a
\* Skip for today, it records today as done and sleeps until midnight; when
\* the run record is today, it sleeps until midnight; in both cases it does
\* not run the ramp, whether or not a wake request was observed.
C15_SecondCheck ==
    [][(pc = "L422" /\ pc' \notin {"L422", "crashed"})
        => /\ today_str = day
           /\ Stored(day).action = "skip"
                => /\ load_state(STATE_FILE').last_run = day
                   /\ day \in skip_consumed'
           /\ (Stored(day).action = "skip" \/ already_ran_today(STATE_FILE, day))
                => /\ pc' = "clear"
                   /\ sleep_kind' = "midnight"
                   /\ deadline' = next_midnight
                   /\ completed' = completed]_vars

\* a skip command wrote its Skip while the loop was going into the sleep
\* before the ramp; its wake request was not observed, the sleep expired at
\* the default time, and the re-check consumed the Skip
C15_Witness ==
    /\ pc = "clear"
    /\ sleep_kind = "midnight"
    /\ day \in skip_consumed
    /\ Stored(day).action = "skip"
    /\ ncmds = 1
    /\ cmd_pc = "idle"
    /\ ~dropped
    /\ ~interrupted
    /\ ~wake_event
    /\ ~failed
    /\ tod = DEFAULT_RAMP_TIME
    /\ target_time = DEFAULT_RAMP_TIME
    /\ completed[day] = 0

\* the brightness levels attempted on device i, in the order of the commands
Attempted(i) ==
    LET IsLevel(c) == c.dev = i /\ c.attr = "brightness"
        cmds == SelectSeq(applied, IsLevel) IN
    [j \in 1..Len(cmds) |-> cmds[j].value]
\* every level from 1 to 100, in order
AllLevels == [j \in min_brightness..max_brightness |-> j]

\* C16: a wake request that arrives while run_ramp is running changes nothing
\* of the ramp; no time.sleep of the ramp ends before its time; the ramp
\* never goes back to a lower level; and when run_ramp returns after a
\* wake request, every level 1..100 has been attempted on every device, the
\* loop still being in the ramp.
C16_WakeLeavesRamp ==
    [][/\ (~wake_event /\ wake_event') => UNCHANGED <<pc, rampVars>>
       /\ (ramp_pc = "sleep" /\ ramp_pc' # "sleep")
            => time >= sleep_until /\ time' = time /\ ramp_pc' = "L299"
       /\ brightness' >= brightness
       /\ ramp_pc' # "raised"
       /\ (ramp_pc # "returned" /\ ramp_pc' = "returned" /\ wake_event)
            => /\ pc = "ramping"
               /\ \A i \in DOMAIN switches : Attempted(i) = AllLevels]_vars

\* a wake request arrived during the ramp, and run_ramp has returned after
\* level 100, at the end of the duration of the ramp
C16_Witness ==
    /\ pc = "ramping"
    /\ wake_event
    /\ wake_outside
    /\ ramp_pc = "returned"
    /\ latency = 0
    /\ \A i \in DOMAIN switches : Attempted(i) = AllLevels
    /\ time = start_time + Ticks(Float(total_seconds))

\* the step after which the first command of the next level is issued
LevelApplied == ramp_pc \in {"L289", "sleep"} /\ ramp_pc' = "L299"
\* the tick of the schedule entry of a level
Offset(level) == Ticks(brightness_schedule[level].t)

\* C20: start_time is set once, after the commands of level 1; each level B
\* in 2..100 is applied no earlier than start_time + offset(B); and as long
\* as no level has taken longer than the gap to the next offset, level B is
\* applied at start_time + offset(B), level 100 at start_time + the duration
\* of the ramp.
C20_DriftCorrection ==
    [][/\ start_time' # start_time
            => /\ ramp_pc = "L284" /\ ramp_pc' = "L289"
               /\ \A i \in DOMAIN switches : Attempted(i) = <<min_brightness>>
               /\ start_time' = time'
       /\ LevelApplied
            => /\ brightness' \in (min_brightness + 1)..max_brightness
               /\ time' >= start_time + Offset(brightness')
               /\ ~over_budget => time' = start_time + Offset(brightness')
               /\ (~over_budget /\ brightness' = max_brightness)
                    => time' = start_time + Ticks(Float(total_seconds))]_vars

\* the commands of the levels take time, no level so far took longer than
\* the gap to the next offset, and the first command of level 100 is about
\* to be issued at start_time + the duration of the 30-minute ramp
C20_Witness ==
    /\ ramp_pc = "L299"
    /\ idx = 1
    /\ brightness = max_brightness
    /\ latency = MaxLatency
    /\ start_time = MaxLatency
    /\ ~over_budget
    /\ total_seconds = 30 * 60
    /\ time = start_time + TicksPerRamp

\* the step in which the loop, after a ramp, calls its sleep until midnight
PostRampSleep == pc \in {"L450", "L453w"} /\ pc' = "clear"
\* the mapping the purge read from the store (line 450)
Purged == IF pc = "L450" THEN load_overrides(OVERRIDE_FILE) ELSE overrides

\* C17: when the loop, after a ramp that succeeded in the iteration of date d,
\* goes into its sleep until midnight, the run record is d; and when no
\* command has run, the store has no entry before the current date and
\* every entry of the current date or later as it was.
C17_RecordedAndPurged ==
    [][PostRampSleep
        => /\ load_state(STATE_FILE').last_run = today_str
           /\ ncmds = 0
                => /\ \A d \in DOMAIN load_overrides(OVERRIDE_FILE').items : d >= day
                   /\ \A d \in Dates : d >= day => Stored(d)' = Get(Purged.items, d)]_vars

\* C19: the loop writes the store only in its purge; what the purge is about
\* to write has, for every date from today on, the entry the store holds at
\* that moment; and when the purge writes over a document a command has
\* written in the meantime, the entries from today on stay as they are.
C19_LoopKeepsOverrides ==
    [][/\ (OVERRIDE_FILE' # OVERRIDE_FILE /\ cmd_pc' = cmd_pc) => pc \in {"L453", "L453w"}
       /\ (pc = "L453" /\ pc' = "L453w")
            => \A d \in Dates :
                  d >= day => Get(cleanup_overrides(overrides, day).items, d) = Stored(d)
       /\ (pc = "L453w" /\ pc' # "L453w" /\ OVERRIDE_FILE.kind = "object")
            => \A d \in Dates : d >= day => Stored(d)' = Stored(d)]_vars

\* C18: cleanup_overrides returns the entries of its input whose date is today
\* or later, each with its value, and no other; the input mapping is as it
\* was; and cleanup_overrides of the result, with the same today, is the
\* result.
C18_CleanupFilters ==
    [][/\ (fn_pc = "call" /\ fn_pc' = "returned")
            => LET input == args.overrides.items
                   cleaned == result'[1].items IN
               /\ DOMAIN cleaned = {k \in DOMAIN input : k >= args.today}
               /\ \A k \in DOMAIN cleaned : cleaned[k] = input[k]
               /\ args' = args
       /\ (fn_pc = "returned" /\ fn_pc' = "again")
            => /\ result'[2] = result[1]
               /\ result'[1] = result[1]
               /\ args' = args]_vars

\* today is 2027-01-01; of the entries for 2026-12-31 and 2027-01-10 the second
\* one has been kept, twice
C18_Witness ==
    /\ fn_pc = "again"
    /\ args.today = 4
    /\ args.overrides = PyDict((3 :> SkipEntry) @@ (13 :> Reschedule(0)))
    /\ result = <<PyDict(13 :> Reschedule(0)), PyDict(13 :> Reschedule(0))>>

\* the command issued in this step, and the one issued before it
Issued == Len(applied') = Len(applied) + 1 /\ SubSeq(applied', 1, Len(applied)) = applied
Latest == applied'[Len(applied')]
Previous == applied[Len(applied)]

\* the command issued in this step is the one that follows the commands
\* issued so far: a power-on command, after power-on commands only, to a
\* device further down the list that is not on; level 1 on the first
\* device, all devices being on; the level of the command before on the
\* next device; or, after the last device, the next level on the first
NextInOrder ==
    IF Latest.attr = "power"
      THEN /\ applied # <<>> => Previous.attr = "power" /\ Previous.dev < Latest.dev
           /\ switches[Latest.dev].power # "ON"
      ELSE IF applied = <<>> \/ Previous.attr = "power"
        THEN /\ Latest.dev = 1
             /\ Latest.value = min_brightness
             /\ \A i \in DOMAIN switches : switches[i].power = "ON"
        ELSE \/ /\ Previous.dev < Len(switches)
                /\ Latest.dev = Previous.dev + 1
                /\ Latest.value = Previous.value
             \/ /\ Previous.dev = Len(switches)
                /\ Latest.dev = 1
                /\ Latest.value = Previous.value + 1

\* C21: in one call of run_ramp, a power-on command goes to a device only
\* if the device is not on, and every device is on when the first
\* brightness command is issued; the power-on commands come before every
\* brightness command; level 1 is set on every device, then the levels 2
\* to 100 in increasing order, each level on every device before the next
\* level on any device; and run_ramp returns on a list of devices only
\* after level 100 has been attempted on the last of them.
C21_CommandOrder ==
    [][/\ applied' # applied => Issued /\ NextInOrder
       /\ (ramp_pc # "returned" /\ ramp_pc' = "returned" /\ Len(switches) > 0)
            => /\ applied # <<>>
               /\ Previous = [dev |-> Len(switches), attr |-> "brightness",
                              value |-> max_brightness, ok |-> TRUE]]_vars

\* run_ramp has returned on MaxSwitches devices of which only the last was
\* off: one power-on command, to the last device, then every level on every
\* device
C21_Witness ==
    /\ ramp_pc = "returned"
    /\ Len(switches) = MaxSwitches
    /\ applied[1] = [dev |-> MaxSwitches, attr |-> "power", value |-> 0, ok |-> TRUE]
    /\ Len(applied) = 1 + max_brightness * MaxSwitches
    /\ \A i \in DOMAIN switches : Attempted(i) = AllLevels

\* the service process is running
Running == pc \notin {"down", "crashed", "exited"}
\* the time at which the ramp of date d is due by the store: the time of a
\* reschedule entry for d, DEFAULT_RAMP_TIME without one
TriggerTime(d) ==
    IF Stored(d).action = "reschedule" /\ Stored(d).time # NoTime THEN Stored(d).time
    ELSE DEFAULT_RAMP_TIME

\* C22: on a date d after the first one, while the service is running
\* before the trigger time of d, with no skip entry for d and no failed
\* attempt, the run record is not d unless a ramp of d has run or a skip
\* was honoured on d: nothing done on d-1 leaves the record at d, which
\* would keep the loop from starting the ramp of d.
C22_RampEveryDay ==
    (/\ day > 0
     /\ Running
     /\ tod < TriggerTime(day)
     /\ Stored(day).action # "skip"
     /\ ~failed
     /\ load_state(STATE_FILE).type = "dict")
        => \/ ~already_ran_today(STATE_FILE, day)
           \/ completed[day] > 0
           \/ day \in skip_consumed

====
